---- MODULE Spec2Model ----
(***************************************************************************)
(* Model of LlamaCPPModel._generate_text (src/app/models.py): the          *)
(* streaming generation loop, its UTF-8 byte reassembly and its stop       *)
(* string matching.  The generator is a coroutine: it runs only while the  *)
(* caller is inside next(), and suspends at each yield.                    *)
(*                                                                         *)
(* Text is a sequence of code points, bytes a sequence of 0..255.          *)
(***************************************************************************)
EXTENDS Integers, Sequences, FiniteSets, TLC

\* Largest number of sample() calls explored in one session.
MaxSamples == 4

VARIABLES
  stops,          \* parameter: list of stop strings
  max_tokens,     \* parameter: <<>> is None, <<n>> is the int n
  pc,             \* position of the generator
  caller,         \* "idle": generator suspended or ended; "waiting": inside next()
  count, finish_reason, text, incomplete,   \* locals, lines 105-108
  token, complete, match, longest, end,     \* locals of the loop body
  ctx,            \* the underlying model's evaluation context (tokens fed by eval)
  calls,          \* log of the calls made on the underlying model
  chunks,         \* the (text, finish_reason) pairs yielded so far
  sampled,        \* tokens returned by sample so far
  completeAll,    \* concatenation of every `complete` produced so far
  pulls           \* number of next() calls the caller has made

vars == <<stops, max_tokens, pc, caller, count, finish_reason, text, incomplete,
          token, complete, match, longest, end, ctx, calls, chunks, sampled,
          completeAll, pulls>>

None == "None"

----------------------------------------------------------------------------
(* Sequence helpers *)

Max(a, b) == IF a >= b THEN a ELSE b

\* Python text[a:b] for 0 <= a <= b <= len(text)
Slice(s, a, b) == SubSeq(s, a + 1, b)

\* Python text.endswith(p)
EndsWith(s, p) == Len(p) <= Len(s) /\ SubSeq(s, Len(s) - Len(p) + 1, Len(s)) = p

\* s occurs in t starting at the 0-based position p
OccursAt(t, s, p) == p + Len(s) <= Len(t) /\ SubSeq(t, p + 1, p + Len(s)) = s

RECURSIVE Flatten(_)
Flatten(ss) == IF ss = <<>> THEN <<>> ELSE Head(ss) \o Flatten(Tail(ss))

----------------------------------------------------------------------------
(* The underlying model runtime, as far as the loop observes it *)

\* Token ids the sampler can return; 0 is the end-of-sequence token.
TokenIds == 0 .. 6

is_eos_token(t) == t = 0

\* detokenize([t], decode=False): the raw bytes of one token.
\* 97 'a', 98 'b', 195 169 is the UTF-8 encoding of U+00E9.
detokenize(t) ==
  CASE t = 1 -> <<97>>
    [] t = 2 -> <<98>>
    [] t = 3 -> <<98, 97>>
    [] t = 4 -> <<195>>
    [] t = 5 -> <<169>>
    [] t = 6 -> <<>>
    [] OTHER -> <<>>

\* tokenize(input): the prompt tokens of the session.
tokens == <<1, 2>>

----------------------------------------------------------------------------
(* bytes.decode('utf-8', errors=...) as CPython implements it *)

IsContByte(b) == b >= 128 /\ b <= 191

\* second byte of a 3-byte sequence: E0 needs A0..BF, ED needs 80..9F
Second3Ok(ch, b) ==
  /\ IsContByte(b)
  /\ (ch = 224 => b >= 160)
  /\ (ch = 237 => b < 160)

\* second byte of a 4-byte sequence: F0 needs 90..BF, F4 needs 80..8F
Second4Ok(ch, b) ==
  /\ IsContByte(b)
  /\ (ch = 240 => b >= 144)
  /\ (ch = 244 => b < 144)

\* Decodes s from the 1-based index i.  `ok` turns FALSE at the first byte a
\* strict decoder would raise on; errors='ignore' skips the offending bytes.
RECURSIVE Utf8DecodeFrom(_, _, _, _)
Utf8DecodeFrom(s, i, acc, ok) ==
  IF i > Len(s) THEN [chars |-> acc, ok |-> ok]
  ELSE
    LET ch == s[i]
        n  == Len(s) - i + 1
        truncated == [chars |-> acc, ok |-> FALSE]
        skip(k) == Utf8DecodeFrom(s, i + k, acc, FALSE)
    IN
    IF ch < 128 THEN Utf8DecodeFrom(s, i + 1, Append(acc, ch), ok)
    ELSE IF ch < 194 \/ ch > 244 THEN skip(1)
    ELSE IF ch < 224 THEN
      IF n < 2 THEN truncated
      ELSE IF ~IsContByte(s[i + 1]) THEN skip(1)
      ELSE Utf8DecodeFrom(s, i + 2,
             Append(acc, (ch - 192) * 64 + (s[i + 1] - 128)), ok)
    ELSE IF ch < 240 THEN
      IF n < 2 THEN truncated
      ELSE IF ~Second3Ok(ch, s[i + 1]) THEN skip(1)
      ELSE IF n < 3 THEN truncated
      ELSE IF ~IsContByte(s[i + 2]) THEN skip(2)
      ELSE Utf8DecodeFrom(s, i + 3,
             Append(acc, (ch - 224) * 4096 + (s[i + 1] - 128) * 64
                          + (s[i + 2] - 128)), ok)
    ELSE
      IF n < 2 THEN truncated
      ELSE IF ~Second4Ok(ch, s[i + 1]) THEN skip(1)
      ELSE IF n < 3 THEN truncated
      ELSE IF ~IsContByte(s[i + 2]) THEN skip(2)
      ELSE IF n < 4 THEN truncated
      ELSE IF ~IsContByte(s[i + 3]) THEN skip(3)
      ELSE Utf8DecodeFrom(s, i + 4,
             Append(acc, (ch - 240) * 262144 + (s[i + 1] - 128) * 4096
                          + (s[i + 2] - 128) * 64 + (s[i + 3] - 128)), ok)

\* complete.decode('utf-8', errors='ignore')
DecodeIgnore(bs) == Utf8DecodeFrom(bs, 1, <<>>, TRUE).chars

\* bs is valid UTF-8: a strict decode raises nothing
IsValidUtf8(bs) == Utf8DecodeFrom(bs, 1, <<>>, TRUE).ok

----------------------------------------------------------------------------
(* Byte reassembler, lines 79-88 *)

\* (byte & 0b10000000) != 0
utf8_is_continuation_byte(byte) == (byte \div 128) % 2 # 0

RECURSIVE SplitIndex(_, _)
SplitIndex(seq, i) ==
  IF i > 0 /\ utf8_is_continuation_byte(seq[i]) THEN SplitIndex(seq, i - 1) ELSE i

\* variant: returns seq[:i], seq[i+1:], losing the byte at the boundary
utf8_split_drops_byte(seq) ==
  LET i == SplitIndex(seq, Len(seq))
  IN <<Slice(seq, 0, i), Slice(seq, Max(i, 1), Len(seq))>>

\* returns seq[:i], seq[i:]
utf8_split_incomplete(seq) ==
  LET i == SplitIndex(seq, Len(seq))
  IN <<Slice(seq, 0, i), Slice(seq, i, Len(seq))>>

----------------------------------------------------------------------------
(* Stop matcher, lines 103 and 128-148 *)

\* The alternatives of re.compile("|".join(map(re.escape, stops))): joining
\* an empty list gives the empty pattern, which matches the empty string.
StopAlternatives(ss) == IF ss = <<>> THEN << <<>> >> ELSE ss

\* stop_regex.search(text): the start of the leftmost match, -1 for no match.
RECURSIVE SearchFrom(_, _, _)
SearchFrom(t, alts, p) ==
  IF p > Len(t) THEN -1
  ELSE IF \E k \in 1 .. Len(alts) : OccursAt(t, alts[k], p) THEN p
  ELSE SearchFrom(t, alts, p + 1)

\* variant: text.find(stop) for each stop in declared order, first hit wins
RECURSIVE FirstDeclaredFind(_, _, _)
FirstDeclaredFind(t, alts, k) ==
  IF k > Len(alts) THEN -1
  ELSE LET p == SearchFrom(t, <<alts[k]>>, 0)
       IN IF p >= 0 THEN p ELSE FirstDeclaredFind(t, alts, k + 1)

first_declared_search(t, ss) == FirstDeclaredFind(t, StopAlternatives(ss), 1)

stop_regex_search(t, ss) == SearchFrom(t, StopAlternatives(ss), 0)

\* variant: line 128's `if stops:` is missing, the regex of an empty stop list
\* (the empty pattern) is searched too
stop_match_unguarded(t, ss) == stop_regex_search(t, ss)

\* lines 128-130: the match start when stops is non-empty and a stop occurs,
\* -1 otherwise
stop_match(t, ss) == IF ss # <<>> THEN stop_regex_search(t, ss) ELSE -1

\* variant: range(len(stop), 1, -1), which never tries the one-character prefix
RECURSIVE StopPrefixSkipsOne(_, _, _)
StopPrefixSkipsOne(t, stop, i) ==
  IF i <= 1 THEN 0
  ELSE IF EndsWith(t, SubSeq(stop, 1, i)) THEN i
  ELSE StopPrefixSkipsOne(t, stop, i - 1)

\* inner loop, lines 138-141: the first i from len(stop) down to 1 with
\* text.endswith(stop[:i]); 0 when the loop ends without a break
RECURSIVE StopPrefixAtEnd(_, _, _)
StopPrefixAtEnd(t, stop, i) ==
  IF i = 0 THEN 0
  ELSE IF EndsWith(t, SubSeq(stop, 1, i)) THEN i
  ELSE StopPrefixAtEnd(t, stop, i - 1)

\* outer loop, lines 136-141, from the k-th stop on
RECURSIVE LongestFrom(_, _, _, _)
LongestFrom(t, ss, k, acc) ==
  IF k > Len(ss) THEN acc
  ELSE LongestFrom(t, ss, k + 1, Max(acc, StopPrefixAtEnd(t, ss[k], Len(ss[k]))))

\* variant: the first declared stop with a prefix at the end of the text wins
RECURSIVE FirstDeclaredPrefix(_, _, _)
FirstDeclaredPrefix(t, ss, k) ==
  IF k > Len(ss) THEN 0
  ELSE LET i == StopPrefixAtEnd(t, ss[k], Len(ss[k]))
       IN IF i > 0 THEN i ELSE FirstDeclaredPrefix(t, ss, k + 1)

first_declared_stop_prefix(t, ss) == FirstDeclaredPrefix(t, ss, 1)

longest_stop_prefix(t, ss) == LongestFrom(t, ss, 1, 0)

\* variant: `if end >= 0`, which yields an empty chunk too
has_emittable_or_empty(e) == e >= 0

\* line 145: `if end > 0`
has_emittable(e) == e > 0

----------------------------------------------------------------------------
(* Termination policy *)

\* variant: `count > max_tokens`, one token too many
budget_exceeded(mt, c) == mt # <<>> /\ mt[1] # 0 /\ c > mt[1]

\* `max_tokens and count >= max_tokens`: None and 0 are falsy
budget_reached(mt, c) == mt # <<>> /\ mt[1] # 0 /\ c >= mt[1]

----------------------------------------------------------------------------
(* Parameters of one call *)

StopChoices ==
  { <<>>,
    << <<97, 98>> >>,
    << <<98>>, <<97, 98>> >>,
    << <<98, 97>>, <<97, 98, 98>> >>,
    << <<>> >> }

MaxTokensChoices == { <<>>, <<0>>, <<-1>>, <<1>>, <<2>>, <<3>> }

\* a call on the underlying model that returned, made during the pulls-th next()
Call(op, arg) == [op |-> op, arg |-> arg, pull |-> pulls, raised |-> FALSE]

\* a call on the underlying model that raised
Raised(op, arg) == [op |-> op, arg |-> arg, pull |-> pulls, raised |-> TRUE]

Init ==
  /\ stops \in StopChoices
  /\ max_tokens \in MaxTokensChoices
  /\ pc = "created"
  /\ caller = "idle"
  /\ count = 0
  /\ finish_reason = None
  /\ text = <<>>
  /\ incomplete = <<>>
  /\ token = 0
  /\ complete = <<>>
  /\ match = -1
  /\ longest = 0
  /\ end = 0
  /\ ctx = <<>>
  /\ calls = <<>>
  /\ chunks = <<>>
  /\ sampled = <<>>
  /\ completeAll = <<>>
  /\ pulls = 0

----------------------------------------------------------------------------
(* The caller *)

\* next(generator) on a generator that has not ended
Pull ==
  /\ caller = "idle"
  /\ pc \in {"created", "yield_mid", "yield_final"}
  /\ caller' = "waiting"
  /\ pulls' = pulls + 1
  /\ UNCHANGED <<stops, max_tokens, pc, count, finish_reason, text, incomplete,
                 token, complete, match, longest, end, ctx, calls, chunks,
                 sampled, completeAll>>

----------------------------------------------------------------------------
(* The generator body, lines 100-157 *)

\* variant: the prompt is evaluated when the generator is created, as a plain
\* function returning a generator would do, not at the first next()
IngestEager ==
  /\ pc = "created"
  /\ calls' = Append(calls, Call("eval", tokens))
  /\ ctx' = ctx \o tokens
  /\ count' = 0
  /\ finish_reason' = None
  /\ text' = <<>>
  /\ incomplete' = <<>>
  /\ pc' = "loop"
  /\ UNCHANGED <<stops, max_tokens, caller, token, complete, match, longest,
                 end, chunks, sampled, completeAll, pulls>>

\* lines 100-108: self.model.eval(tokens), then the locals
Ingest ==
  /\ caller = "waiting" /\ pc = "created"
  /\ calls' = Append(calls, Call("eval", tokens))
  /\ ctx' = ctx \o tokens
  /\ count' = 0
  /\ finish_reason' = None
  /\ text' = <<>>
  /\ incomplete' = <<>>
  /\ pc' = "loop"
  /\ UNCHANGED <<stops, max_tokens, caller, token, complete, match, longest,
                 end, chunks, sampled, completeAll, pulls>>

\* line 101 raises: the exception leaves the generator
IngestFail ==
  /\ caller = "waiting" /\ pc = "created"
  /\ calls' = Append(calls, Raised("eval", tokens))
  /\ pc' = "failed"
  /\ caller' = "idle"
  /\ UNCHANGED <<stops, max_tokens, count, finish_reason, text, incomplete,
                 token, complete, match, longest, end, ctx, chunks, sampled,
                 completeAll, pulls>>

\* variant: the budget test of lines 150-153 comes before the stop search of
\* lines 128-133, so a token that reaches the budget and completes a stop
\* finishes with 'length'
SampleLengthFirst(tok) ==
  /\ caller = "waiting" /\ pc = "loop"
  /\ Len(sampled) < MaxSamples
  /\ token' = tok
  /\ sampled' = Append(sampled, tok)
  /\ IF is_eos_token(tok)
     THEN \* lines 118-120
          /\ calls' = Append(calls, Call("sample", <<>>))
          /\ finish_reason' = "stop"
          /\ pc' = "final"
          /\ UNCHANGED <<text, incomplete, complete, match, longest, end,
                         chunks, completeAll, caller>>
     ELSE
       LET joined == incomplete \o detokenize(tok)        \* line 123
           split  == utf8_split_incomplete(joined)        \* line 124
           text1  == text \o DecodeIgnore(split[1])       \* line 126
           m      == stop_match(text1, stops)             \* lines 128-129
           lng    == longest_stop_prefix(text1, stops)    \* lines 136-141
           e      == Len(text1) - lng                     \* line 144
       IN
       /\ calls' = calls \o <<Call("sample", <<>>), Call("detokenize", <<tok>>)>>
       /\ complete' = split[1]
       /\ incomplete' = split[2]
       /\ completeAll' = completeAll \o split[1]
       /\ match' = m
       /\ IF budget_reached(max_tokens, count + 1) /\ m >= 0
          THEN /\ text' = text1
               /\ finish_reason' = "length"
               /\ pc' = "final"
               /\ UNCHANGED <<longest, end, chunks, caller>>
          ELSE IF m >= 0
          THEN \* lines 130-133
               /\ text' = Slice(text1, 0, m)
               /\ finish_reason' = "stop"
               /\ pc' = "final"
               /\ UNCHANGED <<longest, end, chunks, caller>>
          ELSE /\ longest' = lng
               /\ end' = e
               /\ text' = text1
               /\ UNCHANGED finish_reason
               /\ IF has_emittable(e)
                  THEN \* line 146: suspended at the yield
                       /\ chunks' = Append(chunks,
                            [text |-> Slice(text1, 0, e), finish_reason |-> finish_reason])
                       /\ pc' = "yield_mid"
                       /\ caller' = "idle"
                  ELSE /\ pc' = "count"
                       /\ UNCHANGED <<chunks, caller>>
  /\ count' = IF /\ ~is_eos_token(tok)
                 /\ budget_reached(max_tokens, count + 1)
                 /\ stop_match(text \o DecodeIgnore(
                      utf8_split_incomplete(incomplete \o detokenize(tok))[1]),
                      stops) >= 0
              THEN count + 1 ELSE count
  /\ UNCHANGED <<stops, max_tokens, ctx, pulls>>

\* lines 111-148 up to the yield: one sampled token tok
Sample(tok) ==
  /\ caller = "waiting" /\ pc = "loop"
  /\ Len(sampled) < MaxSamples
  /\ token' = tok
  /\ sampled' = Append(sampled, tok)
  /\ IF is_eos_token(tok)
     THEN \* lines 118-120
          /\ calls' = Append(calls, Call("sample", <<>>))
          /\ finish_reason' = "stop"
          /\ pc' = "final"
          /\ UNCHANGED <<text, incomplete, complete, match, longest, end,
                         chunks, completeAll, caller>>
     ELSE
       LET joined == incomplete \o detokenize(tok)        \* line 123
           split  == utf8_split_incomplete(joined)        \* line 124
           text1  == text \o DecodeIgnore(split[1])       \* line 126
           m      == stop_match(text1, stops)             \* lines 128-129
           lng    == longest_stop_prefix(text1, stops)    \* lines 136-141
           e      == Len(text1) - lng                     \* line 144
       IN
       /\ calls' = calls \o <<Call("sample", <<>>), Call("detokenize", <<tok>>)>>
       /\ complete' = split[1]
       /\ incomplete' = split[2]
       /\ completeAll' = completeAll \o split[1]
       /\ match' = m
       /\ IF m >= 0
          THEN \* lines 130-133
               /\ text' = Slice(text1, 0, m)
               /\ finish_reason' = "stop"
               /\ pc' = "final"
               /\ UNCHANGED <<longest, end, chunks, caller>>
          ELSE /\ longest' = lng
               /\ end' = e
               /\ text' = text1
               /\ UNCHANGED finish_reason
               /\ IF has_emittable(e)
                  THEN \* line 146: suspended at the yield
                       /\ chunks' = Append(chunks,
                            [text |-> Slice(text1, 0, e), finish_reason |-> finish_reason])
                       /\ pc' = "yield_mid"
                       /\ caller' = "idle"
                  ELSE /\ pc' = "count"
                       /\ UNCHANGED <<chunks, caller>>
  /\ UNCHANGED <<stops, max_tokens, count, ctx, pulls>>

\* variant: the exception of line 111 is caught and sample is tried again
SampleFailRetried ==
  /\ caller = "waiting" /\ pc = "loop"
  /\ Len(sampled) < MaxSamples
  /\ Len(calls) < 3 * MaxSamples + 3
  /\ calls' = Append(calls, Raised("sample", <<>>))
  /\ UNCHANGED <<stops, max_tokens, pc, caller, count, finish_reason, text,
                 incomplete, token, complete, match, longest, end, ctx, chunks,
                 sampled, completeAll, pulls>>

\* line 111 raises
SampleFail ==
  /\ caller = "waiting" /\ pc = "loop"
  /\ Len(sampled) < MaxSamples
  /\ calls' = Append(calls, Raised("sample", <<>>))
  /\ pc' = "failed"
  /\ caller' = "idle"
  /\ UNCHANGED <<stops, max_tokens, count, finish_reason, text, incomplete,
                 token, complete, match, longest, end, ctx, chunks, sampled,
                 completeAll, pulls>>

\* variant: line 148 is missing, the yielded text stays in the buffer
ResumeKeepsText ==
  /\ caller = "waiting" /\ pc = "yield_mid"
  /\ pc' = "count"
  /\ UNCHANGED <<stops, max_tokens, caller, count, finish_reason, text,
                 incomplete, token, complete, match, longest, end, ctx, calls,
                 chunks, sampled, completeAll, pulls>>

\* line 148, on resuming from the yield of line 146
Resume ==
  /\ caller = "waiting" /\ pc = "yield_mid"
  /\ text' = Slice(text, end, Len(text))
  /\ pc' = "count"
  /\ UNCHANGED <<stops, max_tokens, caller, count, finish_reason, incomplete,
                 token, complete, match, longest, end, ctx, calls, chunks,
                 sampled, completeAll, pulls>>

\* variant: eval([token]) is called before the budget test of line 151
AdvanceEvalFirst ==
  /\ caller = "waiting" /\ pc = "count"
  /\ count' = count + 1
  /\ calls' = Append(calls, Call("eval", <<token>>))
  /\ ctx' = Append(ctx, token)
  /\ IF budget_reached(max_tokens, count + 1)
     THEN /\ finish_reason' = "length"
          /\ pc' = "final"
     ELSE /\ pc' = "loop"
          /\ UNCHANGED finish_reason
  /\ UNCHANGED <<stops, max_tokens, caller, text, incomplete, token, complete,
                 match, longest, end, chunks, sampled, completeAll, pulls>>

\* variant: line 153's break is missing, the loop goes on after 'length'
AdvanceNoBreak ==
  /\ caller = "waiting" /\ pc = "count"
  /\ count' = count + 1
  /\ finish_reason' =
       IF budget_reached(max_tokens, count + 1) THEN "length" ELSE finish_reason
  /\ calls' = Append(calls, Call("eval", <<token>>))
  /\ ctx' = Append(ctx, token)
  /\ pc' = "loop"
  /\ UNCHANGED <<stops, max_tokens, caller, text, incomplete, token, complete,
                 match, longest, end, chunks, sampled, completeAll, pulls>>

\* lines 150-155: count, the length budget, feeding the token back
Advance ==
  /\ caller = "waiting" /\ pc = "count"
  /\ count' = count + 1
  /\ IF budget_reached(max_tokens, count + 1)
     THEN /\ finish_reason' = "length"
          /\ pc' = "final"
          /\ UNCHANGED <<ctx, calls>>
     ELSE /\ calls' = Append(calls, Call("eval", <<token>>))
          /\ ctx' = Append(ctx, token)
          /\ pc' = "loop"
          /\ UNCHANGED finish_reason
  /\ UNCHANGED <<stops, max_tokens, caller, text, incomplete, token, complete,
                 match, longest, end, chunks, sampled, completeAll, pulls>>

\* line 155 raises
AdvanceFail ==
  /\ caller = "waiting" /\ pc = "count"
  /\ ~budget_reached(max_tokens, count + 1)
  /\ count' = count + 1
  /\ calls' = Append(calls, Raised("eval", <<token>>))
  /\ pc' = "failed"
  /\ caller' = "idle"
  /\ UNCHANGED <<stops, max_tokens, finish_reason, text, incomplete, token,
                 complete, match, longest, end, ctx, chunks, sampled,
                 completeAll, pulls>>

\* variant: self.model.reset() is called before the final yield
FinalYieldResetsFirst ==
  /\ caller = "waiting" /\ pc = "final"
  /\ calls' = Append(calls, Call("reset", <<>>))
  /\ ctx' = <<>>
  /\ chunks' = Append(chunks, [text |-> text, finish_reason |-> finish_reason])
  /\ pc' = "yield_final"
  /\ caller' = "idle"
  /\ UNCHANGED <<stops, max_tokens, count, finish_reason, text, incomplete,
                 token, complete, match, longest, end, sampled, completeAll,
                 pulls>>

\* variant: `yield '', finish_reason`, the withheld text is not flushed
FinalYieldDropsText ==
  /\ caller = "waiting" /\ pc = "final"
  /\ chunks' = Append(chunks, [text |-> <<>>, finish_reason |-> finish_reason])
  /\ pc' = "yield_final"
  /\ caller' = "idle"
  /\ UNCHANGED <<stops, max_tokens, count, finish_reason, text, incomplete,
                 token, complete, match, longest, end, ctx, calls, sampled,
                 completeAll, pulls>>

\* line 156: the final yield
FinalYield ==
  /\ caller = "waiting" /\ pc = "final"
  /\ chunks' = Append(chunks, [text |-> text, finish_reason |-> finish_reason])
  /\ pc' = "yield_final"
  /\ caller' = "idle"
  /\ UNCHANGED <<stops, max_tokens, count, finish_reason, text, incomplete,
                 token, complete, match, longest, end, ctx, calls, sampled,
                 completeAll, pulls>>

\* line 157, on resuming from the final yield; the generator then ends
Reset ==
  /\ caller = "waiting" /\ pc = "yield_final"
  /\ calls' = Append(calls, Call("reset", <<>>))
  /\ ctx' = <<>>
  /\ pc' = "done"
  /\ caller' = "idle"
  /\ UNCHANGED <<stops, max_tokens, count, finish_reason, text, incomplete,
                 token, complete, match, longest, end, chunks, sampled,
                 completeAll, pulls>>

SampleAny == \E tok \in TokenIds : Sample(tok)

Step == Ingest \/ SampleAny \/ Resume \/ Advance \/ FinalYield \/ Reset

Fail == IngestFail \/ SampleFail \/ AdvanceFail

Next == Pull \/ Step \/ Fail

Spec == Init /\ [][Next]_vars

\* The caller keeps pulling and the interpreter runs the generator while the
\* caller is inside next().
LiveSpec == Spec /\ WF_vars(Pull) /\ WF_vars(Step)

----------------------------------------------------------------------------
(* Observations used by the properties *)

\* concatenation of the texts of all chunks yielded so far
Emitted == Flatten([i \in 1 .. Len(chunks) |-> chunks[i].text])

\* concatenation of the bytes of all sampled non-EOS tokens, in order
StreamBytes ==
  Flatten([i \in 1 .. Len(sampled) |->
             IF is_eos_token(sampled[i]) THEN <<>> ELSE detokenize(sampled[i])])

Contains(t, s) == \E p \in 0 .. Len(t) : OccursAt(t, s, p)

SampleCalls == Cardinality({i \in 1 .. Len(calls) : calls[i].op = "sample"})

ResetCalls == Cardinality({i \in 1 .. Len(calls) : calls[i].op = "reset"})

EosSampled == \E i \in 1 .. Len(sampled) : is_eos_token(sampled[i])

NonEmptyStops == stops # <<>> /\ \A k \in 1 .. Len(stops) : stops[k] # <<>>

\* the caller holds the final chunk
FinalDelivered == pc \in {"yield_final", "done"}

----------------------------------------------------------------------------
\* C1: with a non-empty set of non-empty stop strings, the concatenation of
\* all chunks yielded so far never contains a stop string.
C1_NoStopLeakage ==
  NonEmptyStops => \A k \in 1 .. Len(stops) : ~Contains(Emitted, stops[k])

\* a stop matched after text had been withheld and some text had been emitted
C1_Witness ==
  /\ NonEmptyStops
  /\ pc = "yield_final" /\ match >= 0
  /\ Len(chunks) >= 2
  /\ \E i \in 1 .. Len(chunks) : chunks[i].text # <<>>
  /\ Len(sampled) >= 3

----------------------------------------------------------------------------
\* C2: every chunk before the last carries finish_reason None; once the final
\* chunk is delivered exactly one chunk, the last, carries 'stop' or 'length';
\* finish_reason leaves None once and is never changed afterwards.
C2_ChunkReasons ==
  /\ \A i \in 1 .. Len(chunks) - 1 : chunks[i].finish_reason = None
  /\ FinalDelivered =>
       /\ Len(chunks) >= 1
       /\ chunks[Len(chunks)].finish_reason \in {"stop", "length"}
       /\ chunks[Len(chunks)].finish_reason = finish_reason
  /\ ~FinalDelivered =>
       \A i \in 1 .. Len(chunks) : chunks[i].finish_reason = None
  /\ finish_reason \in {None, "stop", "length"}

C2_ReasonSetOnce ==
  /\ finish_reason # None => finish_reason' = finish_reason
  /\ FinalDelivered => chunks' = chunks

C2_FinishReason == [](C2_ChunkReasons) /\ [][C2_ReasonSetOnce]_vars

\* a run that ended with 'length' after non-final chunks
C2_Witness ==
  /\ pc = "done" /\ finish_reason = "length"
  /\ Len(chunks) >= 3
  /\ chunks[1].finish_reason = None

----------------------------------------------------------------------------
\* C3: for a stream of token bytes that is valid UTF-8, the withheld byte
\* buffer is shorter than the widest UTF-8 encoding (4 bytes).
C3_PendingBytesBound ==
  IsValidUtf8(StreamBytes) => Len(incomplete) < 4

----------------------------------------------------------------------------
\* C4: with max_tokens None, zero or negative the session never finishes
\* with finish_reason 'length'.
C4_UnboundedBudget ==
  (max_tokens = <<>> \/ max_tokens[1] <= 0) => finish_reason # "length"

----------------------------------------------------------------------------
\* C5: with max_tokens = N > 0, sample is never called more than N times; a
\* session finishing with 'length' has called sample exactly N times with
\* count = N; a session finishing with 'stop' saw an end-of-sequence token or
\* a full stop match; and if the caller keeps pulling, the session eventually
\* fails or delivers its final chunk.
PositiveBudget == max_tokens # <<>> /\ max_tokens[1] > 0

C5_Budget ==
  PositiveBudget =>
    /\ SampleCalls <= max_tokens[1]
    /\ count <= max_tokens[1]
    /\ finish_reason = "length" =>
         SampleCalls = max_tokens[1] /\ count = max_tokens[1]
    /\ finish_reason = "stop" => EosSampled \/ match >= 0

C5_Ended ==
  \/ ~PositiveBudget
  \/ pc = "failed"
  \/ /\ FinalDelivered
     /\ chunks[Len(chunks)].finish_reason = "length" \/ EosSampled \/ match >= 0

C5_LengthBound == [](C5_Budget) /\ <>(C5_Ended)

\* three tokens sampled under max_tokens = 3, none of them ending the session
\* early, and the final chunk says 'length'
C5_Witness ==
  /\ max_tokens = <<3>> /\ stops # <<>>
  /\ pc = "yield_final"
  /\ chunks[Len(chunks)].finish_reason = "length"
  /\ SampleCalls = 3 /\ count = 3

----------------------------------------------------------------------------
\* C6: when the caller holds the final chunk, reset() has been called on the
\* underlying model.
C6_ResetOnFinish ==
  (pc = "yield_final" /\ caller = "idle") => ResetCalls >= 1

----------------------------------------------------------------------------
\* C7: with no stops and a stream of token bytes that is valid UTF-8, the
\* chunks of a finished session concatenate to the decoding of all the bytes
\* of the sampled tokens.
C7_NoBytesDropped ==
  (stops = <<>> /\ IsValidUtf8(StreamBytes) /\ FinalDelivered)
    => Emitted = DecodeIgnore(StreamBytes)

----------------------------------------------------------------------------
\* C8: the `complete` outputs so far followed by the leftover `incomplete`
\* are exactly the bytes of the tokens pushed so far; pushing an empty chunk
\* gives an empty `complete` and leaves `incomplete` as it was.
C8_AllBytesKept == completeAll \o incomplete = StreamBytes

C8_EmptyChunk ==
  (sampled' # sampled /\ ~is_eos_token(token') /\ detokenize(token') = <<>>)
    => complete' = <<>> /\ incomplete' = incomplete /\ completeAll' = completeAll

C8_Roundtrip == [](C8_AllBytesKept) /\ [][C8_EmptyChunk]_vars

\* an empty chunk was pushed while bytes were pending and others were released
C8_Witness ==
  /\ token = 6 /\ Len(sampled) >= 3 /\ sampled[Len(sampled)] = 6
  /\ incomplete # <<>>
  /\ completeAll # <<>>

----------------------------------------------------------------------------
\* C9: in an iteration without a full stop match the withheld suffix is the
\* longest prefix of any stop string (over all stops, not the first declared)
\* that the accumulated text ends with; the chunk yielded is the text before
\* that suffix, and the suffix is the accumulated text afterwards.

\* the largest i such that t ends with the first i characters of some stop
MaxStopPrefix(t, ss) ==
  LET S == {i \in 1 .. Len(t) :
              \E k \in 1 .. Len(ss) :
                i <= Len(ss[k]) /\ EndsWith(t, SubSeq(ss[k], 1, i))}
  IN IF S = {} THEN 0 ELSE CHOOSE m \in S : \A j \in S : j <= m

C9_Withheld ==
  /\ pc = "yield_mid" =>
       /\ longest = MaxStopPrefix(text, stops)
       /\ end = Len(text) - longest /\ end > 0
       /\ chunks[Len(chunks)] =
            [text |-> SubSeq(text, 1, Len(text) - longest), finish_reason |-> None]
  /\ pc = "count" =>
       /\ longest = MaxStopPrefix(text, stops)
       /\ Len(text) = longest

C9_Yielded ==
  /\ (pc = "loop" /\ pc' = "count") => chunks' = chunks
  /\ (pc = "loop" /\ pc' = "yield_mid") => Len(chunks') = Len(chunks) + 1
  /\ (pc = "yield_mid" /\ pc' = "count") =>
       /\ text' = SubSeq(text, Len(text) - longest + 1, Len(text))
       /\ chunks[Len(chunks)].text \o text' = text
       /\ chunks' = chunks

C9_PartialMatch == [](C9_Withheld) /\ [][C9_Yielded]_vars

\* stops ["ba", "abb"], text "ab" after "a" was yielded: the first declared stop
\* matches one character, the second two, and two are withheld
C9_Witness ==
  /\ stops = << <<98, 97>>, <<97, 98, 98>> >>
  /\ pc = "count" /\ text = <<97, 98>> /\ longest = 2
  /\ Len(chunks) >= 1 /\ chunks[1].text = <<97>>

----------------------------------------------------------------------------
\* C10: when the accumulated text holds a stop string after a token is
\* appended, that iteration ends the session with 'stop', yields no
\* non-final chunk, and the final chunk is the accumulated text before the
\* earliest start of any stop occurrence; nothing is yielded after it.

EarliestStop(t, ss) ==
  CHOOSE p \in 0 .. Len(t) :
    /\ \E k \in 1 .. Len(ss) : OccursAt(t, ss[k], p)
    /\ \A q \in 0 .. p - 1 : \A k \in 1 .. Len(ss) : ~OccursAt(t, ss[k], q)

C10_Trim ==
  /\ (pc = "loop" /\ sampled' # sampled /\ ~is_eos_token(token')) =>
       LET appended == text \o DecodeIgnore(complete')
       IN (\E k \in 1 .. Len(stops) : Contains(appended, stops[k])) =>
            /\ finish_reason' = "stop"
            /\ pc' = "final"
            /\ chunks' = chunks
            /\ text' = SubSeq(appended, 1, EarliestStop(appended, stops))
  /\ pc = "final" =>
       /\ pc' = "yield_final"
       /\ chunks' = Append(chunks, [text |-> text, finish_reason |-> finish_reason])
  /\ FinalDelivered => chunks' = chunks

C10_FullMatchTrim == [][C10_Trim]_vars

\* stops ["ab"]: "b" yielded, "a" withheld, then a token "ba" makes the text
\* "aba"; the final chunk is '' and neither "ab" nor the "a" after it is yielded
C10_Witness ==
  /\ stops = << <<97, 98>> >>
  /\ sampled = <<2, 1, 3>>
  /\ pc = "yield_final" /\ match = 0
  /\ chunks = << [text |-> <<98>>, finish_reason |-> None],
                 [text |-> <<>>, finish_reason |-> "stop"] >>

----------------------------------------------------------------------------
\* C11: with stops = [] nothing is ever withheld: longest is 0 in every
\* iteration, every decoded character is yielded in the iteration that decoded
\* it, the accumulated text is empty after every iteration, and the session
\* finishes with 'stop' only on an end-of-sequence token.
C11_NothingWithheld ==
  stops = <<>> =>
    /\ longest = 0 /\ match = -1
    /\ pc # "yield_mid" => text = <<>>
    /\ pc = "yield_mid" => chunks[Len(chunks)].text = text /\ end = Len(text)
    /\ Emitted = DecodeIgnore(completeAll)
    /\ finish_reason = "stop" =>
         sampled # <<>> /\ is_eos_token(sampled[Len(sampled)])

C11_YieldedAtOnce ==
  (stops = <<>> /\ pc = "loop" /\ sampled' # sampled /\ ~is_eos_token(token')) =>
    /\ pc' \in {"yield_mid", "count"}
    /\ Emitted' = Emitted \o DecodeIgnore(complete')
    /\ pc' = "count" <=> DecodeIgnore(complete') = <<>>

C11_EmptyStops == [](C11_NothingWithheld) /\ [][C11_YieldedAtOnce]_vars

\* no stops: two chunks were yielded, bytes are pending, the text is empty
C11_Witness ==
  /\ stops = <<>>
  /\ pc = "count" /\ text = <<>>
  /\ Len(chunks) >= 2 /\ incomplete # <<>>

----------------------------------------------------------------------------
\* C12: a sampled end-of-sequence token finishes the session with 'stop'; the
\* token is neither detokenized nor passed to eval; the final chunk is the
\* text withheld at that moment; an end-of-sequence token sampled first gives
\* the single chunk ('', 'stop') and no error.
C12_EosStep ==
  (sampled' # sampled /\ is_eos_token(token')) =>
    /\ finish_reason' = "stop" /\ pc' = "final"
    /\ text' = text /\ chunks' = chunks /\ ctx' = ctx
    /\ calls' = Append(calls, Call("sample", <<>>))

C12_EosFinal ==
  EosSampled =>
    /\ is_eos_token(sampled[Len(sampled)])
    /\ \A i \in 1 .. Len(sampled) - 1 : ~is_eos_token(sampled[i])
    /\ pc \in {"final", "yield_final", "done"}
    /\ finish_reason = "stop"
    /\ \A i \in 1 .. Len(calls) :
         calls[i].op \in {"eval", "detokenize"} => calls[i].arg # <<token>>
    /\ FinalDelivered =>
         chunks[Len(chunks)] = [text |-> text, finish_reason |-> "stop"]
    /\ (FinalDelivered /\ Len(sampled) = 1) =>
         chunks = << [text |-> <<>>, finish_reason |-> "stop"] >>

C12_EosTermination == [](C12_EosFinal) /\ [][C12_EosStep]_vars

\* stops ["ab"]: "a" is withheld when the end-of-sequence token arrives and is
\* flushed as the final chunk
C12_Witness ==
  /\ stops = << <<97, 98>> >>
  /\ sampled = <<2, 1, 0>>
  /\ pc = "yield_final"
  /\ chunks[Len(chunks)] = [text |-> <<97>>, finish_reason |-> "stop"]

----------------------------------------------------------------------------
\* C13: a failing eval or sample ends the session at once: the exception
\* reaches the caller in the pull that made the call, the call is not made
\* again, no model call and no chunk follow it, and no chunk with a non-None
\* finish_reason has been or will be yielded.
C13_FailedSession ==
  \A i \in 1 .. Len(calls) :
    calls[i].raised =>
      /\ i = Len(calls)
      /\ calls[i].op \in {"eval", "sample"}
      /\ calls[i].pull = pulls
      /\ pc = "failed" /\ caller = "idle"
      /\ \A j \in 1 .. Len(chunks) : chunks[j].finish_reason = None
      /\ Len(chunks) = pulls - 1

C13_NothingAfterFailure ==
  /\ pc = "failed" => UNCHANGED vars
  /\ (pc # "failed" /\ pc' = "failed") =>
       /\ caller = "waiting" /\ caller' = "idle"
       /\ chunks' = chunks
       /\ Len(calls') = Len(calls) + 1 /\ calls'[Len(calls')].raised

C13_FatalFailure == [](C13_FailedSession) /\ [][C13_NothingAfterFailure]_vars

\* eval of a sampled token raised in the third pull, after two chunks
C13_Witness ==
  /\ pc = "failed"
  /\ Len(chunks) = 2 /\ pulls = 3
  /\ calls[Len(calls)].raised /\ calls[Len(calls)].op = "eval"
  /\ Len(calls[Len(calls)].arg) = 1

----------------------------------------------------------------------------
\* C14: the underlying model is called only while the caller is inside
\* next(): never before the first pull, never between the delivery of a chunk
\* and the next pull, and never again once the caller stops pulling.
C14_CallsInsidePull ==
  /\ pulls = 0 => calls = <<>> /\ ctx = <<>>
  /\ \A i \in 1 .. Len(calls) : calls[i].pull >= 1 /\ calls[i].pull <= pulls
  /\ \A i \in 1 .. Len(calls) - 1 : calls[i].pull <= calls[i + 1].pull
  /\ caller = "waiting" => Len(chunks) = pulls - 1

C14_NoCallWhileIdle ==
  /\ (calls' # calls \/ ctx' # ctx \/ sampled' # sampled) =>
       /\ caller = "waiting"
       /\ Len(chunks) = pulls - 1
  /\ caller = "idle" =>
       \/ UNCHANGED vars
       \/ caller' = "waiting" /\ pulls' = pulls + 1 /\ calls' = calls /\ pc' = pc

C14_Laziness == [](C14_CallsInsidePull) /\ [][C14_NoCallWhileIdle]_vars

\* the caller holds the second non-final chunk; the calls so far were made
\* during the first two pulls
C14_Witness ==
  /\ pc = "yield_mid" /\ caller = "idle"
  /\ pulls = 2 /\ Len(chunks) = 2
  /\ \E i \in 1 .. Len(calls) : calls[i].op = "eval" /\ calls[i].pull = 2

----------------------------------------------------------------------------
\* C15: with a non-empty set of non-empty stops, after every iteration that
\* does not finish the session the withheld text is at most
\* max(len(stop)) - 1 characters long.
RECURSIVE MaxStopLen(_)
MaxStopLen(ss) ==
  IF ss = <<>> THEN 0 ELSE Max(Len(Head(ss)), MaxStopLen(Tail(ss)))

C15_BoundedLatency ==
  (NonEmptyStops /\ pc \in {"count", "loop"}) =>
    Len(text) <= MaxStopLen(stops) - 1

\* stops ["ba", "abb"]: the two characters "ab" are withheld when the next
\* token is about to be sampled
C15_Witness ==
  /\ stops = << <<98, 97>>, <<97, 98, 98>> >>
  /\ pc = "loop" /\ Len(text) = 2 /\ Len(sampled) >= 2

----------------------------------------------------------------------------
\* C16: eval(prompt tokens) is the first call and is made once; between two
\* consecutive sample calls there is exactly one eval call, and its argument
\* is the one token the earlier sample returned; the token that finishes the
\* session is never passed to eval.
SampleIdx == {i \in 1 .. Len(calls) : calls[i].op = "sample"}

EvalIdx == {i \in 1 .. Len(calls) : calls[i].op = "eval"}

C16_FeedBack ==
  /\ calls # <<>> => calls[1].op = "eval" /\ calls[1].arg = tokens
  /\ \A i \in EvalIdx : i > 1 => Len(calls[i].arg) = 1
  /\ \A i \in SampleIdx : \E k \in EvalIdx : k < i
  /\ \A i, j \in SampleIdx :
       (i < j /\ \A k \in SampleIdx : ~(i < k /\ k < j)) =>
         LET between == {k \in EvalIdx : i < k /\ k < j}
             n == Cardinality({k \in SampleIdx : k <= i})
         IN /\ Cardinality(between) = 1
            /\ \A k \in between : calls[k].arg = <<sampled[n]>> /\ ~calls[k].raised
  /\ pc \in {"final", "yield_final", "done"} =>
       /\ SampleIdx # {}
       /\ \A k \in EvalIdx : \E i \in SampleIdx : k < i
       /\ Cardinality(EvalIdx) = Len(sampled)
  /\ ctx # <<>> => \E n \in 0 .. Len(sampled) : ctx = tokens \o SubSeq(sampled, 1, n)

\* three tokens were sampled under max_tokens = 3; the first two were fed
\* back, the third reached the budget and was not
C16_Witness ==
  /\ max_tokens = <<3>> /\ pc = "yield_final" /\ finish_reason = "length"
  /\ Len(sampled) = 3
  /\ ctx = tokens \o SubSeq(sampled, 1, 2)
  /\ Cardinality(EvalIdx) = 3

----------------------------------------------------------------------------
\* C17: every chunk with finish_reason None has non-empty text; an iteration
\* with nothing to emit yields nothing and keeps the whole accumulated text;
\* only the final chunk may be empty.
C17_NonEmptyChunks ==
  \A i \in 1 .. Len(chunks) :
    chunks[i].text = <<>> =>
      /\ chunks[i].finish_reason # None
      /\ i = Len(chunks) /\ FinalDelivered

C17_NothingToEmit ==
  /\ (pc = "loop" /\ pc' = "count") =>
       /\ end' = 0
       /\ chunks' = chunks
       /\ text' = text \o DecodeIgnore(complete')
  /\ (pc = "loop" /\ pc' = "yield_mid") =>
       /\ end' > 0
       /\ chunks'[Len(chunks')].text # <<>>
  /\ pc = "count" => text' = text /\ chunks' = chunks

C17_ChunkTexts == [](C17_NonEmptyChunks) /\ [][C17_NothingToEmit]_vars

\* stops ["ab"]: "a" was withheld and nothing yielded, then "b" completed the
\* stop; the only chunk is the empty final one
C17_Witness ==
  /\ stops = << <<97, 98>> >>
  /\ sampled = <<1, 2>>
  /\ pc = "yield_final"
  /\ chunks = << [text |-> <<>>, finish_reason |-> "stop"] >>

----------------------------------------------------------------------------
\* C18: within an iteration end-of-sequence is tested first, then the full
\* stop match, then the length budget: a token that is the end-of-sequence
\* token or completes a stop finishes the session with 'stop' even when it is
\* the max_tokens-th token, and count is not incremented for it.
C18_Reasons ==
  /\ finish_reason = "stop" =>
       /\ count = Len(sampled) - 1
       /\ EosSampled \/ match >= 0
  /\ finish_reason = "length" =>
       /\ count = Len(sampled)
       /\ ~EosSampled /\ match = -1
  /\ (PositiveBudget /\ Len(sampled) = max_tokens[1] /\ (EosSampled \/ match >= 0)) =>
       /\ finish_reason = "stop"
       /\ count = max_tokens[1] - 1

C18_StopFirst ==
  (pc = "loop" /\ sampled' # sampled) =>
    LET appended == text \o DecodeIgnore(complete')
        stopped ==
          \/ is_eos_token(token')
          \/ \E k \in 1 .. Len(stops) : Contains(appended, stops[k])
    IN /\ stopped => finish_reason' = "stop" /\ pc' = "final" /\ count' = count
       /\ ~stopped => finish_reason' = None /\ pc' \in {"yield_mid", "count"}

C18_Priority == [](C18_Reasons) /\ [][C18_StopFirst]_vars

\* max_tokens = 2 and stops ["ab"]: the second token completes the stop, the
\* session ends with 'stop' and count is still 1
C18_Witness ==
  /\ max_tokens = <<2>> /\ stops = << <<97, 98>> >>
  /\ sampled = <<1, 2>>
  /\ pc = "yield_final" /\ count = 1
  /\ chunks[Len(chunks)].finish_reason = "stop"

----------------------------------------------------------------------------
\* C19: reset() is called at most once, and only when the caller pulls past
\* the final chunk; a session that failed, or that the caller left at or
\* before the final chunk, has not called it, and the model's context then
\* still holds the prompt and the tokens fed back.

\* the arguments of the eval calls that returned, in order
EvalsDone ==
  Flatten([i \in 1 .. Len(calls) |->
             IF calls[i].op = "eval" /\ ~calls[i].raised THEN calls[i].arg ELSE <<>>])

C19_ResetOnlyAtEnd ==
  /\ ResetCalls <= 1
  /\ ResetCalls = 1 <=> pc = "done"
  /\ pc = "done" => calls[Len(calls)].op = "reset" /\ ctx = <<>>
  /\ pc # "done" =>
       /\ ctx = EvalsDone
       /\ (calls # <<>> /\ ~calls[1].raised) =>
            /\ SubSeq(ctx, 1, Len(tokens)) = tokens
            /\ SubSeq(ctx, Len(tokens) + 1, Len(ctx))
                 = SubSeq(sampled, 1, Len(ctx) - Len(tokens))
  /\ pc = "yield_final" => ctx = tokens \o SubSeq(sampled, 1, Len(sampled) - 1)

\* eval of the second sampled token raised: no reset, the context holds the
\* prompt and the first sampled token
C19_Witness ==
  /\ pc = "failed" /\ ResetCalls = 0
  /\ Len(sampled) = 2
  /\ calls[Len(calls)].op = "eval"
  /\ ctx = tokens \o <<sampled[1]>>

====
